---- MODULE Spec2Model ----
(***************************************************************************)
(* Session-scoped recommendation feed engine (backend/api/recommender.py). *)
(*                                                                         *)
(* The database is modelled by its tables: sessions, session_quiz,         *)
(* session_events (the exclusion ledger) and session_cart.  Every engine   *)
(* call is one psycopg2 transaction: its statements work on a private copy *)
(* of the tables that is committed by conn.commit() or dropped by          *)
(* conn.rollback().                                                        *)
(*                                                                         *)
(* Units.  Money is held in tenths of a rouble, ABV in tenths of a         *)
(* percent, ratings in tenths of a star, scores and penalties in 1/1000,   *)
(* weights in units of 0.05, penalty_scale in tenths.  Non-ASCII literals  *)
(* of the source are transliterated (Krasnoe, Beloe, Belyj, Rozovoe, ...). *)
(***************************************************************************)
EXTENDS Integers, Sequences, FiniteSets, TLC

\* ---------------------------------------------------------------- bounds
MaxClock == 4       \* number of engine calls in one behaviour
MaxLimit == 3       \* largest limit passed to _diversity_select on its own

\* ------------------------------------------------------------- constants
NULL == "NULL"      \* SQL NULL / Python None of a text value
NullNum == -1       \* SQL NULL / Python None of a numeric value

TARGET_CART_ITEMS == 6

Abs(x) == IF x < 0 THEN -x ELSE x
Max2(a, b) == IF a >= b THEN a ELSE b
Min2(a, b) == IF a <= b THEN a ELSE b

DEFAULT_WEIGHTS ==
    [price |-> 5, abv |-> 4, category |-> 4, rating |-> 4, popularity |-> 1, behavior |-> 2]

DIVERSITY_PENALTIES == [producer |-> 15, country |-> 10, price_range |-> 5]

\* ---------------------------------------------------------------- catalog
\* The products table (read-only for the engine).  price_current in roubles,
\* abv_percent in tenths of a percent, rating_value in tenths of a star;
\* category_path is held as the set of lower-case search tokens it contains.
Products ==
    [p1 |-> [sku |-> "p1", price_current |-> 900, abv_percent |-> 130,
             availability_status |-> "in_stock", color |-> "Krasnoe",
             grape |-> "Merlot", sugar |-> "Suhoe", category_path |-> {"krasnoe"},
             country |-> "FR", producer |-> "A", rating_value |-> 45, rating_count |-> 60],
     p2 |-> [sku |-> "p2", price_current |-> 1200, abv_percent |-> 120,
             availability_status |-> "in_stock", color |-> "Krasnoe",
             grape |-> "Merlot", sugar |-> NULL, category_path |-> {"krasnoe"},
             country |-> "FR", producer |-> "A", rating_value |-> 40, rating_count |-> 10],
     p3 |-> [sku |-> "p3", price_current |-> 700, abv_percent |-> NullNum,
             availability_status |-> "in_stock", color |-> "Belyj",
             grape |-> NULL, sugar |-> NULL, category_path |-> {"beloe"},
             country |-> "IT", producer |-> NULL, rating_value |-> NullNum, rating_count |-> 0],
     p4 |-> [sku |-> "p4", price_current |-> 2500, abv_percent |-> 400,
             availability_status |-> "in_stock", color |-> NULL,
             grape |-> NULL, sugar |-> NULL, category_path |-> {"krepkie", "viski"},
             country |-> NULL, producer |-> "B", rating_value |-> 48, rating_count |-> 100],
     p5 |-> [sku |-> "p5", price_current |-> NullNum, abv_percent |-> 125,
             availability_status |-> "in_stock", color |-> "Krasnoe",
             grape |-> NULL, sugar |-> NULL, category_path |-> {"krasnoe"},
             country |-> "FR", producer |-> "C", rating_value |-> 50, rating_count |-> 3],
     p6 |-> [sku |-> "p6", price_current |-> 1000, abv_percent |-> 130,
             availability_status |-> "out_of_stock", color |-> "Krasnoe",
             grape |-> NULL, sugar |-> NULL, category_path |-> {"krasnoe"},
             country |-> "IT", producer |-> "C", rating_value |-> 42, rating_count |-> 20]]

Skus == DOMAIN Products

\* ------------------------------------------------------------ Quiz Profile
get_budget_range(budget) ==
    CASE budget = "low" -> <<0, 1000>>
      [] budget = "medium" -> <<1000, 3000>>
      [] budget = "high" -> <<3000, 7000>>
      [] budget = "premium" -> <<7000, 100000>>
      [] OTHER -> <<0, 100000>>

get_category_filters(drink_type) ==
    CASE drink_type = "wine_red" -> {"krasnoe", "red"}
      [] drink_type = "wine_white" -> {"beloe", "white"}
      [] drink_type = "wine_rose" -> {"rozovoe", "rose", "roze"}
      [] drink_type = "sparkling" -> {"igristoe", "shampanskoe", "sparkling", "champagne"}
      [] drink_type = "spirits" ->
            {"krepkie", "viski", "konjak", "vodka_ru", "dzhin", "rom", "whisky", "cognac", "vodka"}
      [] drink_type = "beer" -> {"pivo", "beer"}
      [] OTHER -> {}

\* ABV band in tenths of a percent.
get_abv_range(style, drink_type) ==
    IF drink_type = "spirits"
    THEN (CASE style = "light" -> <<300, 400>>
            [] style = "moderate" -> <<350, 450>>
            [] OTHER -> <<400, 700>>)
    ELSE (CASE style = "light" -> <<0, 120>>
            [] style = "moderate" -> <<110, 140>>
            [] OTHER -> <<130, 200>>)

\* ------------------------------------------------------------ table reads
SessionIds == {"s1", "s2"}

NoQuiz == [occasion |-> NULL, style |-> NULL, drink_type |-> NULL,
           people_count |-> 0, budget |-> NULL]

\* The rows of session_events / session_cart of one (session, sku) pair.
EventRows(ev, s, sku) == {r \in ev : r.session_id = s /\ r.sku = sku}
CartRows(ct, s, sku) == {r \in ct : r.session_id = s /\ r.sku = sku}

\* select ... from session_quiz where session_id = s  (None when no row)
FetchSessionQuiz(qz, s) == qz[s]

FetchLikedAnyReaction(ev, s) ==
    {r \in ev : r.session_id = s /\ r.action \in {"like", "dislike"} /\ r.sku \in Skus}

\* select se.* from session_events se join products p ... and se.action = 'like'
FetchLiked(ev, s) ==
    {r \in ev : r.session_id = s /\ r.action = "like" /\ r.sku \in Skus}

RECURSIVE SumCart(_)
SumCart(rows) ==
    IF rows = {} THEN 0
    ELSE LET r == CHOOSE x \in rows : TRUE
         IN r.qty * r.price_at_add + SumCart(rows \ {r})

\* cart_total in tenths of a rouble, distinct_items = count(distinct sku)
GetCartTotals(ct, s) ==
    LET rows == {r \in ct : r.session_id = s}
    IN [cart_total |-> SumCart(rows),
        distinct_items |-> Cardinality({r.sku : r \in rows})]

\* ------------------------------------------------------ Preference Learner
\* Counter over one attribute of the liked rows (falsy values are skipped).
AttrKeys(liked, attr) == {Products[r.sku][attr] : r \in liked} \ {NULL}
AttrCount(liked, attr, k) == Cardinality({r \in liked : Products[r.sku][attr] = k})

\* Counter.most_common(2): the two most frequent keys; among equally frequent
\* keys the row order of the un-ordered query decides, so every admissible
\* pair is a possible outcome.
TopKeySets(liked, attr) ==
    LET keys == AttrKeys(liked, attr)
    IN {T \in SUBSET keys :
          /\ Cardinality(T) = Min2(2, Cardinality(keys))
          /\ \A k \in T : \A j \in keys \ T :
                AttrCount(liked, attr, k) >= AttrCount(liked, attr, j)}

\* statistics.median of the non-null values of attr, scaled by `scale`;
\* NullNum when there is none.  (even count: mean of the two middle values)
Median(liked, attr, scale) ==
    LET rows == {r \in liked : Products[r.sku][attr] # NullNum}
        n == Cardinality(rows)
        Val(r) == Products[r.sku][attr]
        Kth(k) == CHOOSE v \in {Val(r) : r \in rows} :
                     /\ Cardinality({r \in rows : Val(r) < v}) < k
                     /\ Cardinality({r \in rows : Val(r) <= v}) >= k
    IN IF n = 0 THEN NullNum
       ELSE IF n % 2 = 1 THEN Kth((n + 1) \div 2) * scale
       ELSE ((Kth(n \div 2) + Kth(n \div 2 + 1)) * scale) \div 2

\* The preference profiles _build_preferences may return for the liked rows.
BuildPreferences(liked) ==
    {[top_countries |-> tc, top_producers |-> tp, colors |-> co, grapes |-> gr,
      sugars |-> su,
      price_median |-> Median(liked, "price_current", 10),
      abv_median |-> Median(liked, "abv_percent", 1)] :
        tc \in TopKeySets(liked, "country"), tp \in TopKeySets(liked, "producer"),
        co \in TopKeySets(liked, "color"), gr \in TopKeySets(liked, "grape"),
        su \in TopKeySets(liked, "sugar")}

\* ------------------------------------------------------ Candidate Retriever
DrinkTypeFilter(p, drink_type) ==
    CASE drink_type = "mixed" -> TRUE
      [] drink_type = "wine_red" -> p.color = "Krasnoe"
      [] drink_type = "wine_white" -> p.color \in {"Beloe", "Belyj"}
      [] drink_type = "wine_rose" -> p.color = "Rozovoe"
      [] drink_type = "sparkling" -> {"igrist", "shampan"} \cap p.category_path # {}
      [] drink_type \in {"spirits", "beer"} ->
            get_category_filters(drink_type) \cap p.category_path # {}
      [] OTHER -> TRUE

\* The exclusion filter reads only impression rows (action is null), so a
\* sku that was liked or disliked without being shown stays eligible.
EligibleUnlessReacted(ev, s, quiz, abv_range) ==
    {sku \in Skus :
        LET p == Products[sku]
        IN /\ p.availability_status = "in_stock"
           /\ p.price_current # NullNum
           /\ p.price_current > 0
           /\ \/ p.abv_percent = NullNum
              \/ (abv_range[1] <= p.abv_percent /\ p.abv_percent <= abv_range[2])
           /\ {r \in EventRows(ev, s, sku) : r.action = "null"} = {}
           /\ DrinkTypeFilter(p, quiz.drink_type)}

\* The exclusion looks at the rows of every session.
EligibleAnySession(ev, s, quiz, abv_range) ==
    {sku \in Skus :
        LET p == Products[sku]
        IN /\ p.availability_status = "in_stock"
           /\ p.price_current # NullNum
           /\ p.price_current > 0
           /\ \/ p.abv_percent = NullNum
              \/ (abv_range[1] <= p.abv_percent /\ p.abv_percent <= abv_range[2])
           /\ {r \in ev : r.sku = sku} = {}
           /\ DrinkTypeFilter(p, quiz.drink_type)}

Eligible(ev, s, quiz, abv_range) ==
    {sku \in Skus :
        LET p == Products[sku]
        IN /\ p.availability_status = "in_stock"
           /\ p.price_current # NullNum
           /\ p.price_current > 0
           /\ \/ p.abv_percent = NullNum
              \/ (abv_range[1] <= p.abv_percent /\ p.abv_percent <= abv_range[2])
           /\ EventRows(ev, s, sku) = {}
           /\ DrinkTypeFilter(p, quiz.drink_type)}

\* order by coalesce(rating_value, 3.5) desc, coalesce(rating_count, 0) desc,
\* price_current asc  (rows equal on all three are ordered by sku here)
SqlBefore(a, b) ==
    LET ra == IF a.rating_value = NullNum THEN 35 ELSE a.rating_value
        rb == IF b.rating_value = NullNum THEN 35 ELSE b.rating_value
    IN \/ ra > rb
       \/ ra = rb /\ a.rating_count > b.rating_count
       \/ ra = rb /\ a.rating_count = b.rating_count /\ a.price_current < b.price_current
       \/ /\ ra = rb /\ a.rating_count = b.rating_count
          /\ a.price_current = b.price_current
          /\ \E i, j \in 1..6 : /\ i < j
                                /\ a.sku = <<"p1", "p2", "p3", "p4", "p5", "p6">>[i]
                                /\ b.sku = <<"p1", "p2", "p3", "p4", "p5", "p6">>[j]

RECURSIVE OrderRows(_)
OrderRows(skus) ==
    IF skus = {} THEN <<>>
    ELSE LET first == CHOOSE a \in skus :
                        \A b \in skus \ {a} : SqlBefore(Products[a], Products[b])
         IN <<Products[first]>> \o OrderRows(skus \ {first})

FetchCandidates(ev, s, quiz, abv_range, fetch_limit) ==
    LET rows == OrderRows(Eligible(ev, s, quiz, abv_range))
    IN SubSeq(rows, 1, Min2(fetch_limit, Len(rows)))

\* --------------------------------------------------------- Relevance Scorer
\* floor(1000 * log(x) / log(100)) for x = 1 .. 100
Log100Table ==
    <<
      0, 150, 238, 301, 349, 389, 422, 451, 477, 500,
      520, 539, 556, 573, 588, 602, 615, 627, 639, 650,
      661, 671, 680, 690, 698, 707, 715, 723, 731, 738,
      745, 752, 759, 765, 772, 778, 784, 789, 795, 801,
      806, 811, 816, 821, 826, 831, 836, 840, 845, 849,
      853, 858, 862, 866, 870, 874, 877, 881, 885, 889,
      892, 896, 899, 903, 906, 909, 913, 916, 919, 922,
      925, 928, 931, 934, 937, 940, 943, 946, 948, 951,
      954, 956, 959, 962, 964, 967, 969, 972, 974, 977,
      979, 981, 984, 986, 988, 991, 993, 995, 997, 1000
    >>

\* min(1.0, math.log(rating_count + 1) / math.log(100)) in 1/1000
PopularityScore(rating_count) ==
    IF rating_count + 1 >= 100 THEN 1000 ELSE Min2(1000, Log100Table[rating_count + 1])

\* 1 - min(1, abs(price - target) / denom) in 1/1000; all arguments in tenths
\* of a rouble, denom2 = 2 * denom.
PriceFit(price, target, denom2) ==
    LET diff2 == 2 * Abs(price - target)
    IN IF diff2 >= denom2 THEN 0 ELSE 1000 - (diff2 * 1000) \div denom2

\* 1 inside the band, otherwise max(0, 1 - diff / 7) in 1/1000; abv and the
\* band in tenths of a percent.
AbvScore(abv, abv_range) ==
    IF abv_range[1] <= abv /\ abv <= abv_range[2]
    THEN 1000
    ELSE LET diff == Min2(Abs(abv - abv_range[1]), Abs(abv - abv_range[2]))
         IN Max2(0, 1000 - (diff * 1000) \div 70)

RatingScore(rating, rating_count) ==
    LET confidence_boost == Min2(1000, rating_count * 4)
    IN Min2(1000, rating * 20 + confidence_boost)

BehaviorScore(product, preferences) ==
    LET price == IF product.price_current = NullNum THEN 0 ELSE product.price_current * 10
        abv == IF product.abv_percent = NullNum THEN 0 ELSE product.abv_percent
        median_price == preferences.price_median
        median_abv == preferences.abv_median
        b1 == IF product.country # NULL /\ product.country \in preferences.top_countries
              THEN 300 ELSE 0
        b2 == IF product.producer # NULL /\ product.producer \in preferences.top_producers
              THEN 200 ELSE 0
        b3 == IF product.color \in preferences.colors THEN 150 ELSE 0
        b4 == IF product.grape \in preferences.grapes THEN 100 ELSE 0
        b5 == IF product.sugar \in preferences.sugars THEN 50 ELSE 0
        b6 == IF median_price # NullNum /\ median_price # 0
              THEN (PriceFit(price, median_price, Max2(median_price, 6000)) * 2) \div 10
              ELSE 0
        b7 == IF median_abv # NullNum
              THEN LET d == Abs(abv - median_abv)
                   IN IF d >= 50 THEN 0 ELSE (1000 - (d * 1000) \div 50) \div 10
              ELSE 0
    IN Min2(1000, b1 + b2 + b3 + b4 + b5 + b6 + b7)

\* _calculate_session_score in 1/1000.  price_target and target_window in
\* tenths of a rouble, abv_range in tenths of a percent.
CalculateSessionScore(product, quiz, weights, price_target, target_window, abv_range, category_filters, preferences) ==
    LET price == IF product.price_current = NullNum THEN 0 ELSE product.price_current * 10
        s_price ==
            IF price > 0 /\ weights.price > 0
            THEN PriceFit(price, price_target,
                          Max2(Max2(price_target, 2 * target_window), 20)) * weights.price
            ELSE 0
        abv == product.abv_percent
        s_abv ==
            IF abv # NullNum /\ weights.abv > 0
            THEN AbvScore(abv, abv_range) * weights.abv
            ELSE 0
        token_hit == category_filters \cap product.category_path # {}
        s_category ==
            IF quiz.drink_type \in {"wine_red", "wine_white", "wine_rose"}
            THEN LET expected == CASE quiz.drink_type = "wine_red" -> "Krasnoe"
                                   [] quiz.drink_type = "wine_white" -> "Beloe"
                                   [] OTHER -> "Rozovoe"
                 IN IF product.color = expected THEN 1000 * weights.category
                    ELSE IF token_hit THEN 500 * weights.category
                    ELSE 0
            ELSE IF category_filters # {}
                 THEN (IF token_hit THEN 1000 * weights.category ELSE 0)
                 ELSE 500 * weights.category
        rating == product.rating_value
        rating_count == product.rating_count
        s_rating ==
            IF rating # NullNum /\ rating # 0 /\ weights.rating > 0
            THEN RatingScore(rating, rating_count) * weights.rating
            ELSE IF weights.rating > 0 THEN 400 * weights.rating
            ELSE 0
        s_popularity ==
            IF rating_count # 0 /\ weights.popularity > 0
            THEN PopularityScore(rating_count) * weights.popularity
            ELSE 0
        s_behavior ==
            IF weights.behavior > 0
            THEN BehaviorScore(product, preferences) * weights.behavior
            ELSE 0
        total_weight == weights.price + weights.abv + weights.category
                        + weights.rating + weights.popularity + weights.behavior
        score == s_price + s_abv + s_category + s_rating + s_popularity + s_behavior
    IN IF total_weight > 0 THEN score \div total_weight ELSE 0

\* _to_product_model: the fields of Product the selector and the result use.
ToProductModel(product, score) ==
    [sku |-> product.sku,
     price_current |-> IF product.price_current \in {NullNum, 0} THEN 0
                       ELSE product.price_current,
     country |-> product.country,
     producer |-> product.producer,
     relevance_score |-> score]

\* scored_products.sort(key=relevance_score, reverse=True): stable.
RECURSIVE SortByRelevance(_)
SortByRelevance(products) ==
    IF products = <<>> THEN <<>>
    ELSE LET i == CHOOSE k \in 1..Len(products) :
                    /\ \A j \in 1..Len(products) :
                          products[j].relevance_score <= products[k].relevance_score
                    /\ \A j \in 1..(k - 1) :
                          products[j].relevance_score < products[k].relevance_score
         IN <<products[i]>> \o
            SortByRelevance(SubSeq(products, 1, i - 1) \o SubSeq(products, i + 1, Len(products)))

\* -------------------------------------------------------- Diversity Selector
price_range(price) ==
    IF price < 500 THEN "budget"
    ELSE IF price < 1500 THEN "mid-low"
    ELSE IF price < 3000 THEN "mid-high"
    ELSE "premium"

\* used_producers / used_countries / used_price_ranges of the items chosen so far
UsedCount(diverse, field, value) ==
    Cardinality({i \in 1..Len(diverse) : diverse[i][field] = value})

UsedPriceRange(diverse, pr) ==
    Cardinality({i \in 1..Len(diverse) : price_range(diverse[i].price_current) = pr})

\* Only a repeated producer is penalised.
PenaltyProducerOnly(candidate, diverse, penalty_scale) ==
    UsedCount(diverse, "producer", candidate.producer)
        * DIVERSITY_PENALTIES.producer * penalty_scale

\* penalty of one candidate in 1/1000 (penalty_scale in tenths)
Penalty(candidate, diverse, penalty_scale) ==
    UsedCount(diverse, "producer", candidate.producer)
        * DIVERSITY_PENALTIES.producer * penalty_scale
    + (IF candidate.country # NULL
       THEN UsedCount(diverse, "country", candidate.country)
                * DIVERSITY_PENALTIES.country * penalty_scale
       ELSE 0)
    + UsedPriceRange(diverse, price_range(candidate.price_current))
        * DIVERSITY_PENALTIES.price_range * penalty_scale

Adjusted(candidate, diverse, penalty_scale) ==
    candidate.relevance_score - Penalty(candidate, diverse, penalty_scale)

\* adjusted >= best_score: on a tie the later candidate replaces the earlier.
BestIndexLastWins(remaining, diverse, penalty_scale) ==
    CHOOSE k \in 1..Len(remaining) :
        /\ \A j \in 1..Len(remaining) :
              Adjusted(remaining[j], diverse, penalty_scale)
                  <= Adjusted(remaining[k], diverse, penalty_scale)
        /\ \A j \in (k + 1)..Len(remaining) :
              Adjusted(remaining[j], diverse, penalty_scale)
                  < Adjusted(remaining[k], diverse, penalty_scale)

\* The scan of `remaining`: the first candidate whose adjusted score is not
\* exceeded by any other (adjusted > best_score keeps the earlier one on a tie).
BestIndex(remaining, diverse, penalty_scale) ==
    CHOOSE k \in 1..Len(remaining) :
        /\ \A j \in 1..Len(remaining) :
              Adjusted(remaining[j], diverse, penalty_scale)
                  <= Adjusted(remaining[k], diverse, penalty_scale)
        /\ \A j \in 1..(k - 1) :
              Adjusted(remaining[j], diverse, penalty_scale)
                  < Adjusted(remaining[k], diverse, penalty_scale)

\* The chosen product is not removed from the remaining pool.
RemoveFirstKeeps(seq, x) == seq

\* list.remove(x): drops the first element equal to x
RemoveFirst(seq, x) ==
    LET i == CHOOSE k \in 1..Len(seq) : seq[k] = x /\ \A j \in 1..(k - 1) : seq[j] # x
    IN SubSeq(seq, 1, i - 1) \o SubSeq(seq, i + 1, Len(seq))

RECURSIVE DiversityLoop(_, _, _, _)
DiversityLoop(remaining, diverse, limit, penalty_scale) ==
    IF ~(Len(diverse) < limit /\ remaining # <<>>) THEN diverse
    ELSE LET best_product == remaining[BestIndex(remaining, diverse, penalty_scale)]
         IN DiversityLoop(RemoveFirst(remaining, best_product),
                          Append(diverse, best_product), limit, penalty_scale)

\* The first candidate of the list is never considered.
DiversitySelectSkipsHead(products, limit, penalty_scale) ==
    IF products = <<>> THEN <<>>
    ELSE DiversityLoop(Tail(products), <<>>, limit, penalty_scale)

DiversitySelect(products, limit, penalty_scale) ==
    IF products = <<>> THEN <<>>
    ELSE DiversityLoop(products, <<>>, limit, penalty_scale)

\* ------------------------------------------------------- impression logging
\* insert into session_events (...) values (s, sku, null, now())
\* on conflict (session_id, sku) do nothing     -- one statement per sku
\* The statement is never executed.
LogImpressionSkipped(ev, s, sku, now) == ev

\* on conflict (session_id, sku) do update set action = null
LogImpressionOverwrite(ev, s, sku, now) ==
    IF EventRows(ev, s, sku) # {}
    THEN {IF r.session_id = s /\ r.sku = sku THEN [r EXCEPT !.action = "null"] ELSE r :
            r \in ev}
    ELSE ev \cup {[session_id |-> s, sku |-> sku, action |-> "null", created_at |-> now]}

LogImpression(ev, s, sku, now) ==
    IF EventRows(ev, s, sku) # {} THEN ev
    ELSE ev \cup {[session_id |-> s, sku |-> sku, action |-> "null", created_at |-> now]}

\* Only the first selected sku is logged.
LogImpressionsHeadOnly(ev, s, skus, now) ==
    IF skus = <<>> THEN ev ELSE LogImpression(ev, s, Head(skus), now)

\* No impression is logged.
LogImpressionsNone(ev, s, skus, now) == ev

RECURSIVE LogImpressions(_, _, _, _)
LogImpressions(ev, s, skus, now) ==
    IF skus = <<>> THEN ev
    ELSE LogImpressions(LogImpression(ev, s, Head(skus), now), s, Tail(skus), now)

\* insert into session_events (...) values (s, sku, action, now())
\* on conflict (session_id, sku) do update set action = excluded.action,
\*                                              created_at = session_events.created_at
\* do update set action = excluded.action, created_at = excluded.created_at
UpsertReactionClobber(ev, s, sku, action, now) ==
    IF EventRows(ev, s, sku) # {}
    THEN {IF r.session_id = s /\ r.sku = sku
          THEN [r EXCEPT !.action = action, !.created_at = now]
          ELSE r : r \in ev}
    ELSE ev \cup {[session_id |-> s, sku |-> sku, action |-> action, created_at |-> now]}

UpsertReaction(ev, s, sku, action, now) ==
    IF EventRows(ev, s, sku) # {}
    THEN {IF r.session_id = s /\ r.sku = sku
          THEN [r EXCEPT !.action = action, !.created_at = r.created_at]
          ELSE r : r \in ev}
    ELSE ev \cup {[session_id |-> s, sku |-> sku, action |-> action, created_at |-> now]}

\* insert into session_cart (...) values (s, sku, qty, price, now())
\* on conflict (session_id, sku) do update
\*   set qty = greatest(1, session_cart.qty + excluded.qty), added_at = excluded.added_at
\* do update set qty = excluded.qty: a repeat add replaces the quantity
UpsertCartLineOverwrite(ct, s, sku, qty, price_at_add, now) ==
    IF CartRows(ct, s, sku) # {}
    THEN {IF r.session_id = s /\ r.sku = sku
          THEN [r EXCEPT !.qty = qty, !.added_at = now]
          ELSE r : r \in ct}
    ELSE ct \cup {[session_id |-> s, sku |-> sku, qty |-> qty,
                   price_at_add |-> price_at_add, added_at |-> now]}

UpsertCartLine(ct, s, sku, qty, price_at_add, now) ==
    IF CartRows(ct, s, sku) # {}
    THEN {IF r.session_id = s /\ r.sku = sku
          THEN [r EXCEPT !.qty = Max2(1, r.qty + qty), !.added_at = now]
          ELSE r : r \in ct}
    ELSE ct \cup {[session_id |-> s, sku |-> sku, qty |-> qty,
                   price_at_add |-> price_at_add, added_at |-> now]}

\* update sessions set status = 'in_progress', updated_at = now() where ...
TouchSessionReopens(se, s, now) ==
    [se EXCEPT ![s] = IF se[s].status = "absent" THEN se[s]
                      ELSE [status |-> "in_progress", updated_at |-> now]]

\* update sessions set updated_at = now() where session_id = s
TouchSession(se, s, now) ==
    [se EXCEPT ![s] = IF se[s].status = "absent" THEN se[s]
                      ELSE [se[s] EXCEPT !.updated_at = now]]

\* conn.commit() publishes the transaction's tables, conn.rollback() drops them.
Commit(committed, working) == working
\* The connection runs in autocommit mode: rollback() undoes nothing.
RollbackKeepsWrites(committed, working) == working

Rollback(committed, working) == committed

\* ----------------------------------------------------------- Budget Tracker
\* ((min_price + max_price) / 2) * 0.9 in tenths of a rouble
BudgetTargetTotal(budget) ==
    LET r == get_budget_range(budget) IN ((r[1] + r[2]) * 9) \div 2

\* max(budget_target_total * 0.1, 300) in tenths of a rouble
TargetWindow(budget_target_total) == Max2(budget_target_total \div 10, 3000)

PriceTargetPerTarget(budget_target_total, cart_totals) ==
    IF cart_totals.cart_total = 0 /\ cart_totals.distinct_items = 0
    THEN (budget_target_total * 85) \div 100
    ELSE Max2(3000, Max2(0, budget_target_total - cart_totals.cart_total)
                    \div TARGET_CART_ITEMS)

PriceTargetNoFloor(budget_target_total, cart_totals) ==
    IF cart_totals.cart_total = 0 /\ cart_totals.distinct_items = 0
    THEN (budget_target_total * 85) \div 100
    ELSE Max2(0, budget_target_total - cart_totals.cart_total)
         \div Max2(1, TARGET_CART_ITEMS - cart_totals.distinct_items)

\* price_target in tenths of a rouble
PriceTarget(budget_target_total, cart_totals) ==
    IF cart_totals.cart_total = 0 /\ cart_totals.distinct_items = 0
    THEN (budget_target_total * 85) \div 100
    ELSE LET budget_left == Max2(0, budget_target_total - cart_totals.cart_total)
             remaining_slots == Max2(1, TARGET_CART_ITEMS - cart_totals.distinct_items)
         IN Max2(3000, budget_left \div remaining_slots)

\* fetch_multiplier: 8, or int(math.ceil(8 * 1.2)) = 10 for people_count >= 4
FetchMultiplier(people_count) == IF people_count >= 4 THEN 10 ELSE 8
PenaltyScale(people_count) == IF people_count >= 4 THEN 12 ELSE 10

RECURSIVE ScoreAll(_, _, _, _, _, _, _, _)
ScoreAll(candidates, quiz, weights, price_target, target_window, abv_range, category_filters, preferences) ==
    IF candidates = <<>> THEN <<>>
    ELSE <<ToProductModel(Head(candidates),
              CalculateSessionScore(Head(candidates), quiz, weights, price_target,
                  target_window, abv_range, category_filters, preferences))>>
         \o ScoreAll(Tail(candidates), quiz, weights, price_target, target_window,
                     abv_range, category_filters, preferences)

\* The page get_feed selects from the candidates it fetched (lines 738-788).
SelectPage(candidates, quiz, weights, cart_totals, preferences, page_size) ==
    LET budget_target_total == BudgetTargetTotal(quiz.budget)
        scored == ScoreAll(candidates, quiz, weights,
                           PriceTarget(budget_target_total, cart_totals),
                           TargetWindow(budget_target_total),
                           get_abv_range(quiz.style, quiz.drink_type),
                           get_category_filters(quiz.drink_type), preferences)
    IN DiversitySelect(SortByRelevance(scored), page_size, PenaltyScale(quiz.people_count))

SkusOf(products) == [i \in 1..Len(products) |-> products[i].sku]
Range(seq) == {seq[i] : i \in 1..Len(seq)}

\* -------------------------------------------------------------------- state
VARIABLES
    sessions,        \* table sessions: session_id -> [status, updated_at]
    session_quiz,    \* table session_quiz: session_id -> quiz row (NoQuiz: no row)
    session_events,  \* table session_events: set of rows
    session_cart,    \* table session_cart: set of rows
    clock,           \* the value of now() of the latest committed transaction
    last,            \* the latest engine call and what it returned or raised
    pages,           \* per session, the items of every successful get_feed so far
    added,           \* per (session, sku), the sum of qty_delta of successful add_to_cart
    feeds,           \* per request worker, the get_feed transaction it has in flight
    sel,             \* a direct call of _diversity_select: arguments and result
    calc,            \* a direct call of the scorer or of the budget arithmetic of get_feed
    adds             \* per request worker, the add_to_cart transaction it has in flight

vars == <<sessions, session_quiz, session_events, session_cart, clock, last, pages, added,
          feeds, sel, calc, adds>>

\* ------------------------------------------------------------ call inputs
QuizInputs ==
    {[occasion |-> "party", style |-> "moderate", drink_type |-> "mixed",
      people_count |-> 2, budget |-> "medium"],
     [occasion |-> "party", style |-> "moderate", drink_type |-> "wine_red",
      people_count |-> 4, budget |-> "low"]}
PageSizes == {0, 1, 2}
ReactionSkus == {"p1", "p3"}
ReactionInputs == {"like", "dislike", "love"}
CartSkus == {"p1", "p5", "p9"}
QtyDeltas == {-1, 0, 1, 2}
FeedFailures == {"none", "quiz", "candidates", "impressions", "commit"}
\* before_write: a statement fails before the call has written anything;
\* after_write: a later statement or conn.commit() fails after its first write.
WriteFailures == {"none", "before_write", "after_write"}

Workers == {"w1", "w2"}

NoPreferences == [top_countries |-> {}, top_producers |-> {}, colors |-> {}, grapes |-> {},
                  sugars |-> {}, price_median |-> NullNum, abv_median |-> NullNum]

Idle == [pc |-> "idle", session_id |-> NULL, page_size |-> 0, now |-> 0, quiz |-> NoQuiz,
         cart_totals |-> [cart_total |-> 0, distinct_items |-> 0],
         preferences |-> NoPreferences, selected |-> <<>>, writes |-> {}]

IdleAdd == [pc |-> "idle", session_id |-> NULL, sku |-> NULL, qty_delta |-> 0,
            price_at_add |-> 0, now |-> 0, writes |-> {}]

NoCall == [op |-> "none", session_id |-> NULL, sku |-> NULL, arg |-> 0,
           outcome |-> "none", wrote |-> FALSE, items |-> <<>>]

Call(op, s, sku, arg, outcome, wrote, items) ==
    [op |-> op, session_id |-> s, sku |-> sku, arg |-> arg,
     outcome |-> outcome, wrote |-> wrote, items |-> items]

NoSelection == [products |-> <<>>, limit |-> 0, penalty_scale |-> 10,
                result |-> <<>>, done |-> FALSE]

InitEngine ==
    /\ sessions = [s \in SessionIds |-> [status |-> "absent", updated_at |-> 0]]
    /\ session_quiz = [s \in SessionIds |-> NoQuiz]
    /\ session_events = {}
    /\ session_cart = {}
    /\ clock = 0
    /\ last = NoCall
    /\ pages = [s \in SessionIds |-> <<>>]
    /\ added = [s \in SessionIds |-> [k \in CartSkus |-> 0]]
    /\ feeds = [w \in Workers |-> Idle]
    /\ adds = [w \in Workers |-> IdleAdd]

NoCalc == [fn |-> "none", done |-> FALSE]

Init == InitEngine /\ sel = NoSelection /\ calc = NoCalc

Exists(s) == sessions[s].status # "absent"

\* A row another transaction has written and not yet committed: a statement
\* that touches the same (session_id, sku) waits for that transaction to end.
Locked(s, sku) == \E w \in Workers : EventRows(feeds[w].writes, s, sku) # {}

\* The rows a statement wrote: those of `working` that differ from `committed`.
WriteSet(committed, working) == working \ committed

\* Publishing a write set: every written row replaces the row of its key.
ApplyWrites(committed, writes) ==
    {r \in committed : EventRows(writes, r.session_id, r.sku) = {}} \cup writes


\* A call that raised: the except branch rolls the transaction back.
Raise(call, working_sessions, working_quiz, working_events, working_cart) ==
    /\ sessions' = Rollback(sessions, working_sessions)
    /\ session_quiz' = Rollback(session_quiz, working_quiz)
    /\ session_events' = Rollback(session_events, working_events)
    /\ session_cart' = Rollback(session_cart, working_cart)
    /\ last' = [call EXCEPT !.wrote =
                    <<working_sessions, working_quiz, working_events, working_cart>>
                    # <<sessions, session_quiz, session_events, session_cart>>]
    /\ UNCHANGED <<clock, pages, added, feeds, sel, calc, adds>>

\* A call that raised before it opened a transaction.
Reject(call) ==
    /\ last' = call
    /\ UNCHANGED <<sessions, session_quiz, session_events, session_cart, clock, pages, added,
                 feeds, sel, calc, adds>>

\* ------------------------------------------------------------ create_session
CreateSession(s, fail) ==
    /\ ~Exists(s)
    /\ \A o \in SessionIds : Exists(o) \/ ~(\E i, j \in 1..2 :
            i < j /\ o = <<"s1", "s2">>[i] /\ s = <<"s1", "s2">>[j])
    /\ clock < MaxClock
    /\ LET now == clock + 1
           inserted == [sessions EXCEPT ![s] = [status |-> "in_progress", updated_at |-> now]]
       IN IF fail = "before_write"
          THEN Raise(Call("create_session", s, NULL, 0, "StoreFailure", FALSE, <<>>),
                     sessions, session_quiz, session_events, session_cart)
          ELSE IF fail = "after_write"
          THEN Raise(Call("create_session", s, NULL, 0, "StoreFailure", FALSE, <<>>),
                     inserted, session_quiz, session_events, session_cart)
          ELSE /\ sessions' = Commit(sessions, inserted)
               /\ clock' = now
               /\ last' = Call("create_session", s, NULL, 0, "ok", FALSE, <<>>)
               /\ UNCHANGED <<session_quiz, session_events, session_cart, pages, added, feeds, sel, calc, adds>>

\* --------------------------------------------------------------- upsert_quiz
UpsertQuiz(s, quiz, fail) ==
    /\ Exists(s)
    /\ clock < MaxClock
    /\ LET now == clock + 1
           upserted == [session_quiz EXCEPT ![s] = quiz]
           touched == TouchSession(sessions, s, now)
       IN IF fail = "before_write"
          THEN Raise(Call("upsert_quiz", s, NULL, 0, "StoreFailure", FALSE, <<>>),
                     sessions, session_quiz, session_events, session_cart)
          ELSE IF fail = "after_write"
          THEN Raise(Call("upsert_quiz", s, NULL, 0, "StoreFailure", FALSE, <<>>),
                     sessions, upserted, session_events, session_cart)
          ELSE /\ session_quiz' = Commit(session_quiz, upserted)
               /\ sessions' = Commit(sessions, touched)
               /\ clock' = now
               /\ last' = Call("upsert_quiz", s, NULL, 0, "ok", FALSE, <<>>)
               /\ UNCHANGED <<session_events, session_cart, pages, added, feeds, sel, calc, adds>>

\* ------------------------------------------------------------------ get_feed
\* The missing-quiz check is absent.
QuizMissingNever(quiz_row) == FALSE

\* line 734: if not quiz_row
QuizMissing(quiz_row) == quiz_row = NoQuiz

FeedRaise(s, page_size, outcome, working_events) ==
    Raise(Call("get_feed", s, NULL, 0, outcome, FALSE, <<>>),
          sessions, session_quiz, working_events, session_cart)

GetFeed(s, page_size, fail) ==
    /\ Exists(s)
    /\ clock < MaxClock
    /\ LET now == clock + 1
           quiz == FetchSessionQuiz(session_quiz, s)
           cart_totals == GetCartTotals(session_cart, s)
           liked == FetchLiked(session_events, s)
           fetch_limit == page_size * FetchMultiplier(quiz.people_count)
       IN IF fail = "quiz"
          THEN FeedRaise(s, page_size, "StoreFailure", session_events)
          ELSE IF QuizMissing(quiz)
          THEN FeedRaise(s, page_size, "InvalidQuiz", session_events)
          ELSE IF fail = "candidates" \/ fetch_limit < 0
          THEN FeedRaise(s, page_size, "StoreFailure", session_events)
          ELSE \E preferences \in BuildPreferences(liked) :
                 LET candidates == FetchCandidates(session_events, s, quiz,
                                       get_abv_range(quiz.style, quiz.drink_type), fetch_limit)
                     selected == SelectPage(candidates, quiz, DEFAULT_WEIGHTS, cart_totals,
                                            preferences, page_size)
                     skus == SkusOf(selected)
                 IN IF fail = "impressions"
                    THEN \E k \in 0..(Len(skus) - 1) :
                            FeedRaise(s, page_size, "StoreFailure",
                                LogImpressions(session_events, s, SubSeq(skus, 1, k), now))
                    ELSE IF fail = "commit"
                    THEN FeedRaise(s, page_size, "StoreFailure",
                                LogImpressions(session_events, s, skus, now))
                    ELSE /\ session_events' =
                              Commit(session_events, LogImpressions(session_events, s, skus, now))
                         /\ clock' = now
                         /\ last' = Call("get_feed", s, NULL, page_size, "ok", FALSE, skus)
                         /\ pages' = [pages EXCEPT ![s] = Append(@, skus)]
                         /\ UNCHANGED <<sessions, session_quiz, session_cart, added, feeds, sel, calc, adds>>

\* ----------------------------------------------------------- record_reaction
RecordReaction(s, sku, action, fail) ==
    /\ Exists(s)
    /\ clock < MaxClock
    /\ action \in {"like", "dislike"} => ~Locked(s, sku)
    /\ LET now == clock + 1
           call(outcome) == Call("record_reaction", s, sku, 0, outcome, FALSE, <<action>>)
           upserted == UpsertReaction(session_events, s, sku, action, now)
           touched == TouchSession(sessions, s, now)
       IN IF action \notin {"like", "dislike"}
          THEN fail = "none" /\ Reject(call("InvalidReaction"))
          ELSE IF fail = "before_write"
          THEN Raise(Call("record_reaction", s, NULL, 0, "StoreFailure", FALSE, <<>>),
                     sessions, session_quiz, session_events, session_cart)
          ELSE IF fail = "after_write"
          THEN Raise(Call("record_reaction", s, NULL, 0, "StoreFailure", FALSE, <<>>),
                     sessions, session_quiz, upserted, session_cart)
          ELSE /\ session_events' = Commit(session_events, upserted)
               /\ sessions' = Commit(sessions, touched)
               /\ clock' = now
               /\ last' = call("ok")
               /\ UNCHANGED <<session_quiz, session_cart, pages, added, feeds, sel, calc, adds>>

\* --------------------------------------------------------------- add_to_cart
\* The sign of qty_delta is not checked.
ValidateQtyDeltaUnsigned(qty_delta) == IF qty_delta = 0 THEN "return" ELSE "proceed"

\* lines 841-844: the checks made before the transaction is opened
ValidateQtyDelta(qty_delta) ==
    IF qty_delta = 0 THEN "return"
    ELSE IF qty_delta < 0 THEN "raise"
    ELSE "proceed"

PricedIfListed(sku) == sku \in Skus

\* select price_current from products where sku = ...: a row with a price
Priced(sku) == sku \in Skus /\ Products[sku].price_current # NullNum

AddToCart(s, sku, qty_delta, fail) ==
    /\ Exists(s)
    /\ clock < MaxClock
    /\ LET now == clock + 1
           call(outcome) == Call("add_to_cart", s, sku, qty_delta, outcome, FALSE, <<>>)
           priced == Priced(sku)
           price_at_add == IF priced THEN Products[sku].price_current * 10 ELSE 0
           upserted == UpsertCartLine(session_cart, s, sku, qty_delta, price_at_add, now)
           touched == TouchSession(sessions, s, now)
       IN IF ValidateQtyDelta(qty_delta) = "return"
          THEN fail = "none" /\ Reject(Call("add_to_cart", s, NULL, 0, "ok", FALSE, <<>>))
          ELSE IF ValidateQtyDelta(qty_delta) = "raise"
          THEN fail = "none" /\ Reject(call("InvalidQuantity"))
          ELSE IF fail = "before_write"
          THEN Raise(Call("add_to_cart", s, NULL, 0, "StoreFailure", FALSE, <<>>),
                     sessions, session_quiz, session_events, session_cart)
          ELSE IF ~priced
          THEN fail = "none" /\
               Raise(call("ItemNotFound"), sessions, session_quiz, session_events, session_cart)
          ELSE IF fail = "after_write"
          THEN Raise(Call("add_to_cart", s, NULL, 0, "StoreFailure", FALSE, <<>>),
                     sessions, session_quiz, session_events, upserted)
          ELSE /\ session_cart' = Commit(session_cart, upserted)
               /\ sessions' = Commit(sessions, touched)
               /\ clock' = now
               /\ last' = call("ok")
               /\ added' = [added EXCEPT ![s][sku] = @ + qty_delta]
               /\ UNCHANGED <<session_quiz, session_events, pages, feeds, sel, calc, adds>>

\* -------------------------------------------------------------- stop_session
StopSession(s, fail) ==
    /\ Exists(s)
    /\ clock < MaxClock
    /\ LET now == clock + 1
           call(outcome) == Call("stop_session", s, NULL, 0, outcome, FALSE, <<>>)
           stopped == [sessions EXCEPT ![s] = [status |-> "completed", updated_at |-> now]]
       IN IF fail = "before_write"
          THEN Raise(call("StoreFailure"), sessions, session_quiz, session_events, session_cart)
          ELSE IF fail = "after_write"
          THEN Raise(call("StoreFailure"), stopped, session_quiz, session_events, session_cart)
          ELSE /\ sessions' = Commit(sessions, stopped)
               /\ clock' = now
               /\ last' = call("ok")
               /\ UNCHANGED <<session_quiz, session_events, session_cart, pages, added, feeds, sel, calc, adds>>

Next ==
    \/ \E s \in SessionIds, f \in WriteFailures : CreateSession(s, f)
    \/ \E s \in SessionIds, q \in QuizInputs, f \in WriteFailures : UpsertQuiz(s, q, f)
    \/ \E s \in SessionIds, n \in PageSizes, f \in FeedFailures : GetFeed(s, n, f)
    \/ \E s \in SessionIds, k \in ReactionSkus, a \in ReactionInputs, f \in WriteFailures :
          RecordReaction(s, k, a, f)
    \/ \E s \in SessionIds, k \in CartSkus, d \in QtyDeltas, f \in WriteFailures :
          AddToCart(s, k, d, f)
    \/ \E s \in SessionIds, f \in WriteFailures : StopSession(s, f)

Spec == Init /\ [][Next]_vars

\* ------------------------------------------ get_feed, statement by statement
\* The same call as GetFeed, run by request worker w while other requests of
\* the application are served: every statement reads the rows committed when
\* it runs (PostgreSQL's default READ COMMITTED), writes stay private to the
\* transaction until conn.commit().
ConcSessions == {"s1"}
ConcQuizInputs ==
    {[occasion |-> "party", style |-> "moderate", drink_type |-> "mixed",
      people_count |-> 2, budget |-> "medium"]}
ConcPageSizes == {1, 2}

\* lines 732-764: read quiz, cart totals and likes
FeedBegin(w, s, page_size) ==
    /\ feeds[w].pc = "idle"
    /\ Exists(s)
    /\ clock < MaxClock
    /\ LET quiz == FetchSessionQuiz(session_quiz, s)
       IN IF QuizMissing(quiz)
          THEN /\ last' = Call("get_feed", s, NULL, 0, "InvalidQuiz", FALSE, <<>>)
               /\ UNCHANGED <<sessions, session_quiz, session_events, session_cart, clock,
                              pages, added, feeds, sel, calc, adds>>
          ELSE \E preferences \in BuildPreferences(FetchLiked(session_events, s)) :
                 /\ feeds' = [feeds EXCEPT ![w] =
                        [Idle EXCEPT !.pc = "context", !.session_id = s,
                                     !.page_size = page_size, !.now = clock + 1,
                                     !.quiz = quiz,
                                     !.cart_totals = GetCartTotals(session_cart, s),
                                     !.preferences = preferences]]
                 /\ clock' = clock + 1
                 /\ UNCHANGED <<sessions, session_quiz, session_events, session_cart, last,
                                pages, added, sel, calc, adds>>

\* lines 766-788: fetch the candidates, score them and select the page
FeedFetch(w) ==
    /\ feeds[w].pc = "context"
    /\ LET f == feeds[w]
           candidates == FetchCandidates(session_events, f.session_id, f.quiz,
                             get_abv_range(f.quiz.style, f.quiz.drink_type),
                             f.page_size * FetchMultiplier(f.quiz.people_count))
           selected == SelectPage(candidates, f.quiz, DEFAULT_WEIGHTS, f.cart_totals,
                                  f.preferences, f.page_size)
       IN feeds' = [feeds EXCEPT ![w].pc = "selected", ![w].selected = SkusOf(selected)]
    /\ UNCHANGED <<sessions, session_quiz, session_events, session_cart, clock, last, pages,
                   added, sel, calc, adds>>

\* line 790: _log_impressions; an insert waits while another transaction holds
\* an uncommitted row of the same key
FeedLog(w) ==
    /\ feeds[w].pc = "selected"
    /\ LET f == feeds[w]
       IN /\ \A k \in Range(f.selected) : ~Locked(f.session_id, k)
          /\ feeds' = [feeds EXCEPT ![w].pc = "logged",
                          ![w].writes = WriteSet(session_events,
                              LogImpressions(session_events, f.session_id, f.selected, f.now))]
    /\ UNCHANGED <<sessions, session_quiz, session_events, session_cart, clock, last, pages,
                   added, sel, calc, adds>>

\* lines 794-803: commit and return the page
FeedCommit(w) ==
    /\ feeds[w].pc = "logged"
    /\ LET f == feeds[w]
       IN /\ session_events' = Commit(session_events, ApplyWrites(session_events, f.writes))
          /\ last' = Call("get_feed", f.session_id, NULL, f.page_size, "ok", FALSE, f.selected)
          /\ pages' = [pages EXCEPT ![f.session_id] = Append(@, f.selected)]
    /\ feeds' = [feeds EXCEPT ![w] = Idle]
    /\ UNCHANGED <<sessions, session_quiz, session_cart, clock, added, sel, calc, adds>>

NextConc ==
    \/ \E s \in ConcSessions : CreateSession(s, "none")
    \/ \E s \in ConcSessions, q \in ConcQuizInputs : UpsertQuiz(s, q, "none")
    \/ \E s \in ConcSessions, k \in ReactionSkus, a \in {"like", "dislike"} :
          RecordReaction(s, k, a, "none")
    \/ \E w \in Workers, s \in ConcSessions, n \in ConcPageSizes : FeedBegin(w, s, n)
    \/ \E w \in Workers : FeedFetch(w)
    \/ \E w \in Workers : FeedLog(w)
    \/ \E w \in Workers : FeedCommit(w)

SpecConc == Init /\ [][NextConc]_vars

\* -------------------------------------------- _diversity_select on its own
\* Scored products the selector is called with: equal and different scores,
\* shared and missing producers and countries, all four price tiers.
DivPool ==
    {[sku |-> "a", price_current |-> 900, country |-> "FR", producer |-> "A",
      relevance_score |-> 800],
     [sku |-> "b", price_current |-> 1200, country |-> "FR", producer |-> "A",
      relevance_score |-> 800],
     [sku |-> "c", price_current |-> 1700, country |-> "IT", producer |-> NULL,
      relevance_score |-> 700],
     [sku |-> "d", price_current |-> 3500, country |-> NULL, producer |-> "B",
      relevance_score |-> 650],
     [sku |-> "e", price_current |-> 400, country |-> NULL, producer |-> NULL,
      relevance_score |-> 700]}

MaxCand == 3        \* longest candidate list passed to _diversity_select on its own

DistinctSkus(products) ==
    \A i, j \in 1..Len(products) : i # j => products[i].sku # products[j].sku

CandidateLists ==
    {c \in UNION {[1..n -> DivPool] : n \in 0..MaxCand} : DistinctSkus(c)}

InitDiv ==
    /\ InitEngine
    /\ calc = NoCalc
    /\ sel \in {[products |-> c, limit |-> l, penalty_scale |-> ps,
                 result |-> <<>>, done |-> FALSE] :
                    c \in CandidateLists, l \in 0..MaxLimit, ps \in {10, 12}}

RunDiversitySelect ==
    /\ ~sel.done
    /\ sel' = [sel EXCEPT !.result = DiversitySelect(sel.products, sel.limit, sel.penalty_scale),
                          !.done = TRUE]
    /\ UNCHANGED <<sessions, session_quiz, session_events, session_cart, clock, last, pages,
                   added, feeds, calc, adds>>

NextDiv == RunDiversitySelect

SpecDiv == InitDiv /\ [][NextDiv]_vars

\* ------------------------------------------ _calculate_session_score alone
\* The scorer called as get_feed calls it (lines 738-740, 773-787), for one
\* product, with the weights get_feed builds from a caller's weights_override.
\* Weights are in units of 0.05.
WeightKeys == {"price", "abv", "category", "rating", "popularity", "behavior"}
OverrideValues == {-10, 0, 6}
WeightOverrides == UNION {[S -> OverrideValues] : S \in SUBSET WeightKeys}

\* weights = {**DEFAULT_WEIGHTS}; weights.update(weights_override)
MergeWeights(weights_override) ==
    [k \in WeightKeys |->
        IF k \in DOMAIN weights_override THEN weights_override[k] ELSE DEFAULT_WEIGHTS[k]]

TotalWeight(weights) ==
    weights.price + weights.abv + weights.category + weights.rating + weights.popularity
    + weights.behavior

ScoreQuizInputs ==
    QuizInputs \cup
    {[occasion |-> "party", style |-> "strong", drink_type |-> "spirits",
      people_count |-> 2, budget |-> "high"]}

LikedRow(sku) == [session_id |-> "s1", sku |-> sku, action |-> "like", created_at |-> 1]
LikedInputs == {{}, {LikedRow("p1")}, {LikedRow("p1"), LikedRow("p4")}}

\* The products _fetch_candidates can hand to the scorer for a quiz.
ScoreCandidates(quiz) == Eligible({}, "s1", quiz, get_abv_range(quiz.style, quiz.drink_type))

InitScore ==
    /\ InitEngine
    /\ sel = NoSelection
    /\ \E q \in ScoreQuizInputs, o \in WeightOverrides, l \in LikedInputs :
          \E k \in ScoreCandidates(q) :
             calc = [fn |-> "score", product |-> Products[k], quiz |-> q,
                     weights_override |-> o, liked |-> l, weights |-> DEFAULT_WEIGHTS,
                     result |-> 0, done |-> FALSE]

RunCalculateSessionScore ==
    /\ calc.fn = "score" /\ ~calc.done
    /\ \E preferences \in BuildPreferences(calc.liked) :
          LET weights == MergeWeights(calc.weights_override)
              budget_target_total == BudgetTargetTotal(calc.quiz.budget)
              cart_totals == [cart_total |-> 0, distinct_items |-> 0]
          IN calc' = [calc EXCEPT
                 !.weights = weights,
                 !.result = CalculateSessionScore(calc.product, calc.quiz, weights,
                                PriceTarget(budget_target_total, cart_totals),
                                TargetWindow(budget_target_total),
                                get_abv_range(calc.quiz.style, calc.quiz.drink_type),
                                get_category_filters(calc.quiz.drink_type), preferences),
                 !.done = TRUE]
    /\ UNCHANGED <<sessions, session_quiz, session_events, session_cart, clock, last, pages,
                   added, feeds, sel, adds>>

NextScore == RunCalculateSessionScore

SpecScore == InitScore /\ [][NextScore]_vars

\* ------------------------------------------- budget arithmetic of get_feed
\* Lines 742-752 of get_feed run on the totals _get_cart_totals returns for a
\* cart add_to_cart has built.  Money is in tenths of a rouble.
MaxCartItems == 7   \* most distinct skus in a cart
BudgetInputs == {"low", "medium", "high", "premium"}
CartTotalInputs == {0, 5000, 9000, 17000, 18000, 30000, 50000, 481500, 2000000}

\* The (cart_total, distinct_items) pairs a cart can have: no line, no total.
CartTotalsInputs ==
    {[cart_total |-> t, distinct_items |-> n] :
        t \in CartTotalInputs, n \in 0..MaxCartItems} \
    {[cart_total |-> t, distinct_items |-> 0] : t \in CartTotalInputs \ {0}}

InitBudget ==
    /\ InitEngine
    /\ sel = NoSelection
    /\ \E b \in BudgetInputs, c \in CartTotalsInputs :
          calc = [fn |-> "budget", budget |-> b, cart_totals |-> c,
                  budget_target_total |-> 0, price_target |-> 0, done |-> FALSE]

RunBudget ==
    /\ calc.fn = "budget" /\ ~calc.done
    /\ LET budget_target_total == BudgetTargetTotal(calc.budget)
       IN calc' = [calc EXCEPT
              !.budget_target_total = budget_target_total,
              !.price_target = PriceTarget(budget_target_total, calc.cart_totals),
              !.done = TRUE]
    /\ UNCHANGED <<sessions, session_quiz, session_events, session_cart, clock, last, pages,
                   added, feeds, sel, adds>>

NextBudget == RunBudget

SpecBudget == InitBudget /\ [][NextBudget]_vars

\* --------------------------------------- add_to_cart, statement by statement
\* The same call as AddToCart with a positive qty_delta, run by request worker
\* w while another request adds to the same cart.  The upsert of a key waits
\* while another transaction holds an uncommitted row of that key, and then
\* works on the row committed by then (READ COMMITTED).
CartConcSkus == {"p1"}
CartConcDeltas == {1, 2}

CartLockedNever(w, s, sku) == FALSE

\* Another transaction holds an uncommitted session_cart row of (s, sku).
CartLocked(w, s, sku) ==
    \E o \in Workers \ {w} : CartRows(adds[o].writes, s, sku) # {}

\* lines 841-855: argument checks and price lookup
AddBegin(w, s, sku, qty_delta) ==
    /\ adds[w].pc = "idle"
    /\ Exists(s)
    /\ clock < MaxClock
    /\ ValidateQtyDelta(qty_delta) = "proceed"
    /\ Priced(sku)
    /\ adds' = [adds EXCEPT ![w] =
           [IdleAdd EXCEPT !.pc = "priced", !.session_id = s, !.sku = sku,
                           !.qty_delta = qty_delta,
                           !.price_at_add = Products[sku].price_current * 10,
                           !.now = clock + 1]]
    /\ clock' = clock + 1
    /\ UNCHANGED <<sessions, session_quiz, session_events, session_cart, last, pages, added,
                   feeds, sel, calc>>

\* lines 856-870: insert ... on conflict (session_id, sku) do update
AddUpsert(w) ==
    /\ adds[w].pc = "priced"
    /\ LET a == adds[w]
       IN /\ ~CartLocked(w, a.session_id, a.sku)
          /\ adds' = [adds EXCEPT ![w].pc = "upserted",
                        ![w].writes = WriteSet(session_cart,
                            UpsertCartLine(session_cart, a.session_id, a.sku, a.qty_delta,
                                           a.price_at_add, a.now))]
    /\ UNCHANGED <<sessions, session_quiz, session_events, session_cart, clock, last, pages,
                   added, feeds, sel, calc>>

\* lines 871-875: update sessions set updated_at = now(); conn.commit()
AddCommit(w) ==
    /\ adds[w].pc = "upserted"
    /\ LET a == adds[w]
       IN /\ session_cart' = Commit(session_cart, ApplyWrites(session_cart, a.writes))
          /\ sessions' = Commit(sessions, TouchSession(sessions, a.session_id, a.now))
          /\ added' = [added EXCEPT ![a.session_id][a.sku] = @ + a.qty_delta]
          /\ last' = Call("add_to_cart", a.session_id, a.sku, a.qty_delta, "ok", FALSE, <<>>)
    /\ adds' = [adds EXCEPT ![w] = IdleAdd]
    /\ UNCHANGED <<session_quiz, session_events, clock, pages, feeds, sel, calc>>

NextCartConc ==
    \/ \E s \in ConcSessions : CreateSession(s, "none")
    \/ \E w \in Workers, s \in ConcSessions, k \in CartConcSkus, d \in CartConcDeltas :
          AddBegin(w, s, k, d)
    \/ \E w \in Workers : AddUpsert(w)
    \/ \E w \in Workers : AddCommit(w)

SpecCartConc == Init /\ [][NextCartConc]_vars

\* ------------------------------------- reactions and the preference profile
\* A session whose quiz is saved; time is counted from that moment.  Requests
\* record reactions and fetch feeds; a feed's profile is the one FeedBegin
\* built (lines 763-764).
InitPrefs ==
    /\ sessions = [s \in SessionIds |->
                      IF s \in ConcSessions THEN [status |-> "in_progress", updated_at |-> 0]
                      ELSE [status |-> "absent", updated_at |-> 0]]
    /\ session_quiz = [s \in SessionIds |->
                          IF s \in ConcSessions THEN CHOOSE q \in ConcQuizInputs : TRUE
                          ELSE NoQuiz]
    /\ session_events = {}
    /\ session_cart = {}
    /\ clock = 0
    /\ last = NoCall
    /\ pages = [s \in SessionIds |-> <<>>]
    /\ added = [s \in SessionIds |-> [k \in CartSkus |-> 0]]
    /\ feeds = [w \in Workers |-> Idle]
    /\ adds = [w \in Workers |-> IdleAdd]
    /\ sel = NoSelection
    /\ calc = NoCalc

NextPrefs ==
    \/ \E s \in ConcSessions, k \in ReactionSkus, a \in {"like", "dislike"} :
          RecordReaction(s, k, a, "none")
    \/ \E w \in Workers, s \in ConcSessions, n \in ConcPageSizes : FeedBegin(w, s, n)
    \/ \E w \in Workers : FeedFetch(w)
    \/ \E w \in Workers : FeedLog(w)
    \/ \E w \in Workers : FeedCommit(w)

SpecPrefs == InitPrefs /\ [][NextPrefs]_vars

\* ------------------------------------------------ database.py write functions
\* Each write function commits its primary statement on its own connection and
\* then calls update_session_timestamp, which opens a second connection, commits
\* separately and swallows its own exceptions.
\* primary: the primary statement or its commit fails;
\* timestamp: the update of sessions or its commit fails (caught at 451-452);
\* timestamp_connect: get_db_connection() fails in update_session_timestamp
\* (line 438, outside its try).
DbFailures == {"none", "primary", "timestamp", "timestamp_connect"}
DbSessions == {"s1"}
DbSkus == {"p1", "p2"}
DbQtys == {1, 2}
DbPrices == {5000, 7000}
DbWriteOps == {"save_quiz_answers", "db_add_to_cart", "remove_from_cart"}

\* insert into session_cart ... on conflict (session_id, sku) do update set
\* qty = EXCLUDED.qty, price_at_add = EXCLUDED.price_at_add, added_at = now
DbUpsertCartLine(ct, s, sku, qty, price_at_add, now) ==
    {r \in ct : ~(r.session_id = s /\ r.sku = sku)}
        \cup {[session_id |-> s, sku |-> sku, qty |-> qty,
               price_at_add |-> price_at_add, added_at |-> now]}

\* delete from session_cart where session_id = s and sku = sku
DbDeleteCartLine(ct, s, sku) == {r \in ct : ~(r.session_id = s /\ r.sku = sku)}

\* update_session_timestamp raises only when it cannot connect.
UpdateSessionTimestampRaises(fail) == fail = "timestamp_connect"

\* The body of a write function from its primary statement on: execute, commit,
\* update_session_timestamp, return True; except: rollback, raise.
DbWrite(op, s, sku, arg, primary_quiz, primary_cart, fail) ==
    /\ Exists(s)
    /\ LET now == clock + 1
           touched == TouchSession(sessions, s, now)
       IN IF fail = "primary"
          THEN Raise(Call(op, s, sku, arg, "StoreFailure", FALSE, <<fail>>),
                     sessions, primary_quiz, session_events, primary_cart)
          ELSE /\ session_quiz' = Commit(session_quiz, primary_quiz)
               /\ session_cart' = Commit(session_cart, primary_cart)
               /\ sessions' = IF fail = "none" THEN Commit(sessions, touched)
                              ELSE Rollback(sessions, touched)
               /\ clock' = now
               /\ last' = Call(op, s, sku, arg,
                               IF UpdateSessionTimestampRaises(fail)
                               THEN "StoreFailure" ELSE "ok",
                               TRUE, <<fail>>)
               /\ UNCHANGED <<session_events, pages, added, feeds, sel, calc, adds>>

\* database.create_session: insert into sessions ... 'in_progress'
DbCreateSession(s, fail) ==
    /\ ~Exists(s)
    /\ clock < MaxClock
    /\ IF fail = "primary"
       THEN Raise(Call("db_create_session", s, NULL, 0, "StoreFailure", FALSE, <<fail>>),
                  [sessions EXCEPT ![s] = [status |-> "in_progress", updated_at |-> clock + 1]],
                  session_quiz, session_events, session_cart)
       ELSE /\ sessions' = Commit(sessions, [sessions EXCEPT ![s] =
                                     [status |-> "in_progress", updated_at |-> clock + 1]])
            /\ clock' = clock + 1
            /\ last' = Call("db_create_session", s, NULL, 0, "ok", TRUE, <<fail>>)
            /\ UNCHANGED <<session_quiz, session_events, session_cart, pages, added, feeds,
                           sel, calc, adds>>

DbSaveQuizAnswers(s, quiz, fail) ==
    /\ clock < MaxClock
    /\ DbWrite("save_quiz_answers", s, NULL, quiz.people_count,
               [session_quiz EXCEPT ![s] = quiz], session_cart, fail)

DbAddToCart(s, sku, qty, price_at_add, fail) ==
    /\ clock < MaxClock
    /\ DbWrite("db_add_to_cart", s, sku, qty, session_quiz,
               DbUpsertCartLine(session_cart, s, sku, qty, price_at_add, clock + 1), fail)

DbRemoveFromCart(s, sku, fail) ==
    /\ clock < MaxClock
    /\ DbWrite("remove_from_cart", s, sku, 0, session_quiz,
               DbDeleteCartLine(session_cart, s, sku), fail)

NextDb ==
    \/ \E s \in DbSessions, f \in {"none", "primary"} : DbCreateSession(s, f)
    \/ \E s \in DbSessions, q \in QuizInputs, f \in DbFailures : DbSaveQuizAnswers(s, q, f)
    \/ \E s \in DbSessions, k \in DbSkus, n \in DbQtys, p \in DbPrices, f \in DbFailures :
          DbAddToCart(s, k, n, p, f)
    \/ \E s \in DbSessions, k \in DbSkus, f \in DbFailures : DbRemoveFromCart(s, k, f)

SpecDb == Init /\ [][NextDb]_vars

\* --------------------------------------------------- two sessions side by side
\* Two sessions whose quizzes are saved; time is counted from that moment.
PairQuizInputs ==
    {[occasion |-> "party", style |-> "moderate", drink_type |-> "wine_red",
      people_count |-> 4, budget |-> "low"]}
PairPageSizes == {1}
PairReactionSkus == {"p1"}
PairCartSkus == {"p1"}
PairQtyDeltas == {1}

InitPair ==
    /\ \E q1, q2 \in QuizInputs :
          session_quiz = [s \in SessionIds |-> IF s = "s1" THEN q1 ELSE q2]
    /\ sessions = [s \in SessionIds |-> [status |-> "in_progress", updated_at |-> 0]]
    /\ session_events = {}
    /\ session_cart = {}
    /\ clock = 0
    /\ last = NoCall
    /\ pages = [s \in SessionIds |-> <<>>]
    /\ added = [s \in SessionIds |-> [k \in CartSkus |-> 0]]
    /\ feeds = [w \in Workers |-> Idle]
    /\ adds = [w \in Workers |-> IdleAdd]
    /\ sel = NoSelection
    /\ calc = NoCalc

NextPair ==
    \/ \E s \in SessionIds, q \in PairQuizInputs : UpsertQuiz(s, q, "none")
    \/ \E s \in SessionIds, n \in PairPageSizes : GetFeed(s, n, "none")
    \/ \E s \in SessionIds, k \in PairReactionSkus, a \in {"like", "dislike"} :
          RecordReaction(s, k, a, "none")
    \/ \E s \in SessionIds, k \in PairCartSkus, d \in PairQtyDeltas : AddToCart(s, k, d, "none")
    \/ \E s \in SessionIds : StopSession(s, "none")

SpecPair == InitPair /\ [][NextPair]_vars

\* The pages get_feed can return for session s from the given tables
\* (lines 732-790).
FeedItems(ev, ct, qz, s, page_size) ==
    LET quiz == FetchSessionQuiz(qz, s)
        candidates == FetchCandidates(ev, s, quiz, get_abv_range(quiz.style, quiz.drink_type),
                                      page_size * FetchMultiplier(quiz.people_count))
    IN {SkusOf(SelectPage(candidates, quiz, DEFAULT_WEIGHTS, GetCartTotals(ct, s),
                          preferences, page_size)) :
           preferences \in BuildPreferences(FetchLiked(ev, s))}

\* --------------------------------------------- the rating term of the scorer
\* Lines 329-336 run on a product whose rating_value is set.  Ratings are in
\* tenths of a star, the result in 1/1000.
InitRating ==
    /\ InitEngine
    /\ sel = NoSelection
    /\ \E r \in {10, 25, 30, 35, 40, 45, 50},
          n \in {0, 1, 10, 25, 49, 50, 51, 100, 250, 500} :
          calc = [fn |-> "rating", rating |-> r, rating_count |-> n,
                  result |-> 0, done |-> FALSE]

RunRatingScore ==
    /\ calc.fn = "rating" /\ ~calc.done
    /\ calc' = [calc EXCEPT !.result = RatingScore(calc.rating, calc.rating_count),
                            !.done = TRUE]
    /\ UNCHANGED <<sessions, session_quiz, session_events, session_cart, clock, last, pages,
                   added, feeds, sel, adds>>

NextRating == RunRatingScore

SpecRating == InitRating /\ [][NextRating]_vars

\* ------------------------------------------------ the ABV bands of the quiz
\* get_abv_range for every style of one drink type, and the ABV term of the
\* scorer (lines 299-306) for one candidate under each band.
Styles == {"light", "moderate", "intense"}

InitAbv ==
    /\ InitEngine
    /\ sel = NoSelection
    /\ \E d \in {"mixed", "wine_red", "wine_white", "wine_rose", "sparkling", "spirits", "beer"},
          a \in {0, 50, 115, 125, 180, 250, 350, 400, 450, 750} :
          calc = [fn |-> "abv", drink_type |-> d, abv |-> a,
                  bands |-> [st \in Styles |-> <<0, 0>>],
                  scores |-> [st \in Styles |-> 0], done |-> FALSE]

RunAbvRange ==
    /\ calc.fn = "abv" /\ ~calc.done
    /\ LET bands == [st \in Styles |-> get_abv_range(st, calc.drink_type)]
       IN calc' = [calc EXCEPT !.bands = bands,
                               !.scores = [st \in Styles |-> AbvScore(calc.abv, bands[st])],
                               !.done = TRUE]
    /\ UNCHANGED <<sessions, session_quiz, session_events, session_cart, clock, last, pages,
                   added, feeds, sel, adds>>

NextAbv == RunAbvRange

SpecAbv == InitAbv /\ [][NextAbv]_vars

\* ------------------------------------- the selection as get_feed calls it
\* Lines 756-761 and 789: penalty_scale from the quiz's people_count, then
\* _diversity_select on the scored candidates.
InitPage ==
    /\ InitEngine
    /\ sel = NoSelection
    /\ \E c \in CandidateLists, l \in 0..MaxLimit, n \in {1, 3, 4, 6} :
          calc = [fn |-> "page", products |-> c, limit |-> l, people_count |-> n,
                  penalty_scale |-> 0, result |-> <<>>, done |-> FALSE]

RunSelectPage ==
    /\ calc.fn = "page" /\ ~calc.done
    /\ LET penalty_scale == PenaltyScale(calc.people_count)
       IN calc' = [calc EXCEPT
              !.penalty_scale = penalty_scale,
              !.result = DiversitySelect(calc.products, calc.limit, penalty_scale),
              !.done = TRUE]
    /\ UNCHANGED <<sessions, session_quiz, session_events, session_cart, clock, last, pages,
                   added, feeds, sel, adds>>

NextPage == RunSelectPage

SpecPage == InitPage /\ [][NextPage]_vars

\* --------------------------------------------- _diversity_select run twice
\* Two calls of _diversity_select with the same products, limit and
\* penalty_scale.
InitRerun ==
    /\ InitEngine
    /\ sel = NoSelection
    /\ \E c \in CandidateLists, l \in 0..MaxLimit, ps \in {10, 12} :
          calc = [fn |-> "rerun", products |-> c, limit |-> l, penalty_scale |-> ps,
                  result |-> <<>>, again |-> <<>>, runs |-> 0]

RunFirstSelect ==
    /\ calc.fn = "rerun" /\ calc.runs = 0
    /\ calc' = [calc EXCEPT
           !.result = DiversitySelect(calc.products, calc.limit, calc.penalty_scale),
           !.runs = 1]
    /\ UNCHANGED <<sessions, session_quiz, session_events, session_cart, clock, last, pages,
                   added, feeds, sel, adds>>

RunSecondSelect ==
    /\ calc.fn = "rerun" /\ calc.runs = 1
    /\ calc' = [calc EXCEPT
           !.again = DiversitySelect(calc.products, calc.limit, calc.penalty_scale),
           !.runs = 2]
    /\ UNCHANGED <<sessions, session_quiz, session_events, session_cart, clock, last, pages,
                   added, feeds, sel, adds>>

NextRerun == RunFirstSelect \/ RunSecondSelect

SpecRerun == InitRerun /\ [][NextRerun]_vars

\* ------------------------------------------------ one session drained by feeds
\* A session whose quiz is saved and which may have recorded reactions; from
\* then on the client keeps asking for pages of one or two items.  Time is
\* counted from the first of these calls.
InitDrain ==
    /\ \E q \in QuizInputs :
          session_quiz = [s \in SessionIds |-> IF s = "s1" THEN q ELSE NoQuiz]
    /\ sessions = [s \in SessionIds |->
                      IF s = "s1" THEN [status |-> "in_progress", updated_at |-> 0]
                      ELSE [status |-> "absent", updated_at |-> 0]]
    /\ \/ session_events = {}
       \/ \E k \in ReactionSkus, a \in {"like", "dislike"} :
             session_events = {[session_id |-> "s1", sku |-> k, action |-> a, created_at |-> 0]}
    /\ session_cart = {}
    /\ clock = 0
    /\ last = NoCall
    /\ pages = [s \in SessionIds |-> <<>>]
    /\ added = [s \in SessionIds |-> [k \in CartSkus |-> 0]]
    /\ feeds = [w \in Workers |-> Idle]
    /\ adds = [w \in Workers |-> IdleAdd]
    /\ sel = NoSelection
    /\ calc = NoCalc

\* The skus _fetch_candidates can return to the session from the ledger ev.
DrainEligible(ev) ==
    Eligible(ev, "s1", session_quiz["s1"],
             get_abv_range(session_quiz["s1"].style,
                           session_quiz["s1"].drink_type))

\* A get_feed call of the session is served: only that advances the time.  It
\* can be served while calls remain and the quiz is saved (lines 733-736).
DrainFeedServed ==
    /\ clock < MaxClock
    /\ ~QuizMissing(session_quiz["s1"])
    /\ clock' = clock + 1

NextDrain ==
    \E n \in {1, 2}, f \in {"none", "impressions", "commit"} : GetFeed("s1", n, f)

\* The client repeats the call: a call that can be served is served at last.
SpecDrain == InitDrain /\ [][NextDrain]_vars /\ WF_clock(DrainFeedServed)

\* ==================================================================== claims
\* What a step of the engine did, read off the call it completed.
CallCompleted == last' # last \/ clock' # clock
FeedReturned == CallCompleted /\ last'.op = "get_feed" /\ last'.outcome = "ok"
FeedFailed == CallCompleted /\ last'.op = "get_feed" /\ last'.outcome # "ok"

\* C1: no sku appears in the items of two different successful get_feed
\* results of the same session, whatever other calls are made in between.
C1_ExclusionAcrossPages ==
    \A s \in SessionIds : \A i, j \in 1..Len(pages[s]) :
        i # j => Range(pages[s][i]) \cap Range(pages[s][j]) = {}

\* Two non-empty pages were served to one session.
C1_Witness ==
    \E s \in SessionIds :
        /\ Len(pages[s]) >= 2
        /\ pages[s][1] # <<>>
        /\ pages[s][2] # <<>>

\* C2: every sku a get_feed call returns had no session_events row of that
\* session when the call started, whether the row came from an impression or
\* from a reaction on a sku that was never shown.
C2_ReturnedSkusWereUnseen ==
    [][FeedReturned =>
          \A k \in Range(last'.items) : EventRows(session_events, last'.session_id, k) = {}]_vars

\* A feed returned items to a session that holds a reaction on a sku no page
\* ever showed, a sku its quiz would otherwise make eligible.
C2_Witness ==
    /\ last.op = "get_feed" /\ last.outcome = "ok" /\ last.items # <<>>
    /\ session_quiz[last.session_id].drink_type = "mixed"
    /\ \E r \in session_events :
          /\ r.session_id = last.session_id
          /\ r.action \in {"like", "dislike"}
          /\ r.sku \in {"p1", "p3"}
          /\ \A i \in 1..Len(pages[last.session_id]) : r.sku \notin Range(pages[last.session_id][i])

\* C3: when get_feed returns, every returned sku has a committed
\* session_events row of the session.
C3_ReturnedSkusAreLogged ==
    (last.op = "get_feed" /\ last.outcome = "ok") =>
        \A k \in Range(last.items) : EventRows(session_events, last.session_id, k) # {}

\* A feed returned a full page of two items.
C3_Witness == last.op = "get_feed" /\ last.outcome = "ok" /\ Len(last.items) = 2

\* C4: a get_feed call that fails at any step leaves session_events as it was
\* before the call.
C4_FailedFeedWritesNothing == [][FeedFailed => session_events' = session_events]_vars

\* A feed failed after it had written impressions (while logging or at commit).
C4_Witness == last.op = "get_feed" /\ last.outcome = "StoreFailure" /\ last.wrote

\* C5: logging an impression for a sku that already holds a like or dislike
\* of the session writes nothing for that sku, raises no error, and the
\* reaction is still there when the feed commits.
C5_LoggingKeepsReactions ==
    [][\A w \in Workers :
          /\ (feeds[w].pc = "selected" /\ feeds'[w].pc # "selected") =>
                /\ feeds'[w].pc = "logged"
                /\ \A r \in session_events :
                      r.action \in {"like", "dislike"} =>
                          EventRows(feeds'[w].writes, r.session_id, r.sku) = {}
          /\ (feeds[w].pc = "logged" /\ feeds'[w].pc # "logged") =>
                \A r \in session_events :
                    r.action \in {"like", "dislike"} => r \in session_events']_vars

\* A feed has logged its impressions, one of them for a sku on which a reaction
\* was committed after the feed had fetched its candidates.
C5_Witness ==
    \E w \in Workers :
        /\ feeds[w].pc = "logged"
        /\ \E k \in Range(feeds[w].selected) :
              \E r \in EventRows(session_events, feeds[w].session_id, k) :
                  r.action \in {"like", "dislike"}

\* session_events holds at most one row per (session, sku).
OneRowPerPair ==
    \A r, q \in session_events : (r.session_id = q.session_id /\ r.sku = q.sku) => r = q

\* C6: session_events always holds at most one row per (session, sku); a row
\* keeps the created_at of its first insertion through every later impression
\* and reaction; a successful record_reaction leaves the requested action, and
\* repeating the reaction a row already has changes nothing in the ledger.
C6_ReactionIdempotent ==
    [][/\ OneRowPerPair'
       /\ \A r \in session_events :
             \E q \in EventRows(session_events', r.session_id, r.sku) :
                 q.created_at = r.created_at
       /\ \A q \in session_events' :
             EventRows(session_events, q.session_id, q.sku) = {} => q.created_at = clock'
       /\ (CallCompleted /\ last'.op = "record_reaction" /\ last'.outcome = "ok") =>
             /\ \A q \in EventRows(session_events', last'.session_id, last'.sku) :
                   q.action = last'.items[1]
             /\ EventRows(session_events', last'.session_id, last'.sku) # {}
             /\ (\E r \in EventRows(session_events, last'.session_id, last'.sku) :
                     r.action = last'.items[1]) => session_events' = session_events]_vars

\* record_reaction 'like' succeeded on a row that the call before it had
\* inserted by a reaction (the sku was never shown).
C6_Witness ==
    /\ last.op = "record_reaction" /\ last.outcome = "ok" /\ last.items = <<"like">>
    /\ sessions[last.session_id].updated_at = clock
    /\ \A i \in 1..Len(pages[last.session_id]) : last.sku \notin Range(pages[last.session_id][i])
    /\ \E r \in EventRows(session_events, last.session_id, last.sku) :
          r.action = "like" /\ r.created_at = clock - 1

\* C7: add_to_cart with a negative qty_delta raises (InvalidQuantity) and
\* leaves session_cart unchanged.
C7_NegativeDeltaRejected ==
    [][(CallCompleted /\ last'.op = "add_to_cart" /\ last'.arg < 0) =>
          (last'.outcome = "InvalidQuantity" /\ session_cart' = session_cart)]_vars

\* add_to_cart(s, sku, -1) raised on a line that add_to_cart(s, sku, 2) had
\* created, and the line still has quantity 2.
C7_Witness ==
    /\ last.op = "add_to_cart" /\ last.arg = -1 /\ last.outcome = "InvalidQuantity"
    /\ added[last.session_id][last.sku] = 2
    /\ \E r \in CartRows(session_cart, last.session_id, last.sku) :
          r.qty = 2 /\ r.added_at = sessions[last.session_id].updated_at
    /\ clock = 2

\* C8: for every (session, sku) the cart holds no line when nothing was added
\* and otherwise exactly one line whose qty is the sum of the qty_delta of the
\* successful add_to_cart calls; every cart line has qty >= 1.
C8_QuantityAccumulates ==
    /\ \A s \in SessionIds : \A k \in CartSkus :
          LET rows == CartRows(session_cart, s, k)
          IN IF added[s][k] = 0 THEN rows = {}
             ELSE Cardinality(rows) = 1 /\ \A r \in rows : r.qty = added[s][k]
    /\ \A r \in session_cart : r.qty >= 1

\* Two successful adds of the same sku, 3 units in all.
C8_Witness ==
    \E r \in session_cart : r.qty = 3 /\ added[r.session_id][r.sku] = 3 /\ clock = 3

\* C9: get_feed on a session without a quiz row raises (InvalidQuiz, unless
\* the quiz read itself failed) and changes neither session_events nor
\* sessions; a successful upsert_quiz leaves a quiz row, quiz rows are never
\* removed, and get_feed on a session with a quiz row never raises InvalidQuiz.
C9_FeedNeedsQuiz ==
    [][/\ (CallCompleted /\ last'.op = "get_feed"
             /\ session_quiz[last'.session_id] = NoQuiz) =>
             /\ last'.outcome \in {"InvalidQuiz", "StoreFailure"}
             /\ ~last'.wrote
             /\ session_events' = session_events
             /\ sessions' = sessions
       /\ (CallCompleted /\ last'.op = "get_feed"
             /\ session_quiz[last'.session_id] # NoQuiz) => last'.outcome # "InvalidQuiz"
       /\ (CallCompleted /\ last'.op = "upsert_quiz" /\ last'.outcome = "ok") =>
             session_quiz'[last'.session_id] # NoQuiz
       /\ \A s \in SessionIds : session_quiz[s] # NoQuiz => session_quiz'[s] # NoQuiz]_vars

\* get_feed raised InvalidQuiz for a session without a quiz while another
\* session has one.
C9_Witness ==
    /\ last.op = "get_feed" /\ last.outcome = "InvalidQuiz"
    /\ session_quiz[last.session_id] = NoQuiz
    /\ \E o \in SessionIds : session_quiz[o] # NoQuiz

\* C10: for a candidate list with pairwise distinct skus, _diversity_select
\* returns at most `limit` products, each one of the input, no sku twice.
C10_SelectionBounded ==
    sel.done =>
        /\ Len(sel.result) <= sel.limit
        /\ \A i \in 1..Len(sel.result) : sel.result[i] \in Range(sel.products)
        /\ DistinctSkus(sel.result)

\* The selector cut a list of three candidates to a page of two, with the
\* stronger penalty scale.
C10_Witness ==
    /\ sel.done /\ sel.limit = 2 /\ sel.penalty_scale = 12
    /\ Len(sel.products) = 3 /\ Len(sel.result) = 2

\* C11: for every product and every weight map get_feed builds from a caller's
\* weights_override, the score _calculate_session_score returns lies in [0, 1]
\* (0..1000 in 1/1000), and it is 0 when the applied weights sum to zero.
C11_ScoreInUnitRange ==
    (calc.fn = "score" /\ calc.done) =>
        /\ 0 <= calc.result /\ calc.result <= 1000
        /\ TotalWeight(calc.weights) = 0 => calc.result = 0

\* C12: budget_target_total is the bucket's midpoint times 0.9 (450, 1800,
\* 4500 and 48150 roubles); with an empty cart price_target is 0.85 of it
\* (1530.0 for medium); otherwise it is max(300, (budget_target_total -
\* cart_total) / max(1, 6 - distinct_items)), here to the tenth of a rouble.
C12_PriceTargetFormula ==
    (calc.fn = "budget" /\ calc.done) =>
        LET btt == calc.budget_target_total
            pt == calc.price_target
            total == calc.cart_totals.cart_total
            n == calc.cart_totals.distinct_items
            slots == IF 6 - n >= 1 THEN 6 - n ELSE 1
        IN /\ btt = CASE calc.budget = "low" -> 4500
                      [] calc.budget = "medium" -> 18000
                      [] calc.budget = "high" -> 45000
                      [] calc.budget = "premium" -> 481500
           /\ n = 0 => pt * 100 = btt * 85
           /\ (n = 0 /\ calc.budget = "medium") => pt = 15300
           /\ n > 0 => IF btt - total < 3000 * slots
                       THEN pt = 3000
                       ELSE pt * slots <= btt - total /\ btt - total < (pt + 1) * slots

\* Medium bucket, 500 roubles in the cart on two skus: (1800 - 500) / 4 = 325.
C12_Witness ==
    /\ calc.fn = "budget" /\ calc.done /\ calc.budget = "medium"
    /\ calc.cart_totals = [cart_total |-> 5000, distinct_items |-> 2]
    /\ calc.price_target = 3250

\* C13: the price_target get_feed computes is strictly positive for every
\* budget bucket and every cart, and at least 300 roubles when the cart has a
\* line, also when the cart total exceeds the budget target or the cart holds
\* 6 or more distinct skus.
C13_PriceTargetFloor ==
    (calc.fn = "budget" /\ calc.done) =>
        /\ calc.price_target > 0
        /\ calc.cart_totals.distinct_items > 0 => calc.price_target >= 3000

\* A cart of 7 skus worth more than the medium budget target: the floor applies.
C13_Witness ==
    /\ calc.fn = "budget" /\ calc.done /\ calc.budget = "medium"
    /\ calc.cart_totals.distinct_items >= 6
    /\ calc.cart_totals.cart_total > calc.budget_target_total
    /\ calc.price_target = 3000

\* C14: once stop_session(s) has succeeded, a get_feed(s) call adds no
\* session_events row for s.
C14_CompletedFeedReadOnly ==
    [][(CallCompleted /\ last'.op = "get_feed"
          /\ sessions[last'.session_id].status = "completed") =>
          {r \in session_events' : r.session_id = last'.session_id}
              = {r \in session_events : r.session_id = last'.session_id}]_vars

\* C15: when get_feed calls of one session run concurrently, each in its own
\* transaction, no sku is returned by two of them.
C15_ConcurrentFeedsDisjoint ==
    \A s \in ConcSessions : \A k \in Skus :
        Cardinality({i \in 1..Len(pages[s]) : k \in Range(pages[s][i])}) <= 1

\* C16: concurrent add_to_cart calls for one (session, sku) with positive
\* deltas lose no increment and create no second line: whenever no such call
\* is in flight, the cart has exactly one line for the pair and its qty is the
\* sum of the deltas of the calls that returned.
C16_ConcurrentAddsSum ==
    (\A w \in Workers : adds[w].pc = "idle") =>
        \A s \in ConcSessions : \A k \in CartConcSkus :
            added[s][k] > 0 =>
                \E r \in session_cart :
                    /\ r.session_id = s /\ r.sku = k /\ r.qty = added[s][k]
                    /\ CartRows(session_cart, s, k) = {r}

\* Two add_to_cart calls with deltas 1 and 2 overlapped: the one that started
\* first (now = 2) wrote its row after the one that started second (now = 3)
\* had committed, and the line has qty 3.
C16_Witness ==
    /\ \A w \in Workers : adds[w].pc = "idle"
    /\ clock = 3
    /\ last.op = "add_to_cart"
    /\ \E r \in CartRows(session_cart, "s1", "p1") : r.qty = 3 /\ r.added_at = 2

C18_ProfileFromCurrentLikes ==
    [][\A w \in Workers :
          (feeds[w].pc = "idle" /\ feeds'[w].pc = "context") =>
             LET s == feeds'[w].session_id
                 pr == feeds'[w].preferences
                 likes == {r.sku : r \in {x \in session_events :
                                             x.session_id = s /\ x.action = "like"}}
                 countries == {Products[k].country : k \in likes} \ {NULL}
                 prices == {Products[k].price_current * 10 : k \in likes}
                 abvs == {Products[k].abv_percent : k \in likes} \ {NullNum}
             IN /\ pr.top_countries \subseteq countries
                /\ Cardinality(countries) <= 2 => pr.top_countries = countries
                /\ pr.top_producers \subseteq {Products[k].producer : k \in likes}
                /\ pr.colors \subseteq {Products[k].color : k \in likes}
                /\ pr.grapes \subseteq {Products[k].grape : k \in likes}
                /\ pr.sugars \subseteq {Products[k].sugar : k \in likes}
                /\ IF prices = {} THEN pr.price_median = NullNum
                   ELSE /\ \E lo \in prices : lo <= pr.price_median
                        /\ \E hi \in prices : pr.price_median <= hi
                /\ IF abvs = {} THEN pr.abv_median = NullNum
                   ELSE /\ \E lo \in abvs : lo <= pr.abv_median
                        /\ \E hi \in abvs : pr.abv_median <= hi
                /\ likes = {} => pr = NoPreferences]_vars

\* A feed has just built its profile on a session with a liked sku (p3, from
\* Italy), a disliked one (p1, from France) and one that was only shown: the
\* profile holds Italy alone and the liked sku's price.
C18_Witness ==
    \E w \in Workers :
        /\ feeds[w].pc = "context" /\ feeds[w].now = clock
        /\ feeds[w].preferences.top_countries = {"IT"}
        /\ feeds[w].preferences.price_median = 7000
        /\ \E r \in EventRows(session_events, "s1", "p3") : r.action = "like"
        /\ \E r \in EventRows(session_events, "s1", "p1") : r.action = "dislike"
        /\ \E r \in session_events : r.session_id = "s1" /\ r.action = "null"

\* C19: a call of save_quiz_answers, add_to_cart or remove_from_cart of
\* database.py in which a write fails (the primary statement or the session
\* timestamp update) is reported to the caller as an error and leaves the quiz
\* answers, the cart and the sessions table as they were before the call.
C19_DbWritesAllOrNothing ==
    [][(CallCompleted /\ last'.op \in DbWriteOps /\ last'.items # <<"none">>) =>
          /\ last'.outcome # "ok"
          /\ session_quiz' = session_quiz
          /\ session_cart' = session_cart
          /\ sessions' = sessions]_vars

\* C20: a call made with session s1 leaves the quiz answers, the
\* session_events rows, the cart lines and the status of every other session
\* as they were, and the page a get_feed call returns is the one it would
\* return if the tables held the rows of its own session only.
C20_SessionsIsolated ==
    [][/\ \A s2 \in SessionIds :
             (CallCompleted /\ last'.session_id # s2) =>
                /\ session_quiz'[s2] = session_quiz[s2]
                /\ {r \in session_events' : r.session_id = s2}
                      = {r \in session_events : r.session_id = s2}
                /\ {r \in session_cart' : r.session_id = s2}
                      = {r \in session_cart : r.session_id = s2}
                /\ sessions'[s2].status = sessions[s2].status
       /\ FeedReturned =>
             LET s == last'.session_id
             IN last'.items \in FeedItems({r \in session_events : r.session_id = s},
                                          {r \in session_cart : r.session_id = s},
                                          [o \in SessionIds |->
                                              IF o = s THEN session_quiz[o] ELSE NoQuiz],
                                          s, last'.arg)]_vars

\* get_feed has just returned to session s2 a sku that was shown to session s1
\* before, while s1 also holds a reaction and a cart line.
C20_Witness ==
    /\ last.op = "get_feed" /\ last.outcome = "ok" /\ last.session_id = "s2"
    /\ \E k \in Range(last.items) :
          \E r \in EventRows(session_events, "s1", k) : r.created_at < clock
    /\ \E r \in session_events : r.session_id = "s1" /\ r.action = "like"
    /\ \E r \in session_cart : r.session_id = "s1"

\* C21: the rating sub-score is min(1, rating / 5 + confidence_boost) with
\* confidence_boost = min(0.2, rating_count / 50 * 0.2), so the sub-score is
\* never more than 0.2 above rating / 5 (rating 3.0 with 100 reviews gives 0.8).
C21_ConfidenceBoostCapped ==
    (calc.fn = "rating" /\ calc.done) =>
        LET base == calc.rating * 20
            boost == IF calc.rating_count * 4 < 200 THEN calc.rating_count * 4 ELSE 200
        IN /\ calc.result = (IF base + boost < 1000 THEN base + boost ELSE 1000)
           /\ calc.result - base <= 200
           /\ (calc.rating = 30 /\ calc.rating_count = 100) => calc.result = 800

\* C22: for every drink type the ABV band does not get narrower from light to
\* moderate to intense; for every style the spirits band has both bounds at or
\* above those of the band of any other drink type; spirits with intense is
\* [40, 70].
C22_AbvBandsMonotone ==
    (calc.fn = "abv" /\ calc.done) =>
        LET width(st) == calc.bands[st][2] - calc.bands[st][1]
        IN /\ width("light") <= width("moderate")
           /\ width("moderate") <= width("intense")
           /\ calc.drink_type # "spirits" =>
                 \A st \in Styles :
                    /\ get_abv_range(st, "spirits")[1] >= calc.bands[st][1]
                    /\ get_abv_range(st, "spirits")[2] >= calc.bands[st][2]
           /\ calc.drink_type = "spirits" => calc.bands["intense"] = <<400, 700>>

C25_DenominatorOfAppliedWeights ==
    (calc.fn = "score" /\ calc.done /\ \A k \in WeightKeys : calc.weights[k] >= 0) =>
        LET applied == [k \in WeightKeys |->
                           IF k = "abv" /\ calc.product.abv_percent = NullNum THEN 0
                           ELSE IF k = "behavior" /\ calc.liked = {} THEN 0
                           ELSE calc.weights[k]]
            budget_target_total == BudgetTargetTotal(calc.quiz.budget)
        IN calc.result \in
              {CalculateSessionScore(calc.product, calc.quiz, applied,
                   PriceTarget(budget_target_total, [cart_total |-> 0, distinct_items |-> 0]),
                   TargetWindow(budget_target_total),
                   get_abv_range(calc.quiz.style, calc.quiz.drink_type),
                   get_category_filters(calc.quiz.drink_type), preferences) :
                 preferences \in BuildPreferences(calc.liked)}

\* C26: when database.add_to_cart(s, sku, b, p) succeeds on a cart that holds
\* a line for (s, sku) with quantity a, the line's quantity becomes a + b, the
\* quantity ProductRecommender.add_to_cart leaves for the same add.
C26_DbAddAccumulates ==
    [][(CallCompleted /\ last'.op = "db_add_to_cart" /\ last'.outcome = "ok"
          /\ last'.items = <<"none">>) =>
          \A r \in CartRows(session_cart, last'.session_id, last'.sku) :
             \A q \in CartRows(session_cart', last'.session_id, last'.sku) :
                /\ q.qty = r.qty + last'.arg
                /\ \A e \in CartRows(UpsertCartLine(session_cart, last'.session_id, last'.sku,
                                        last'.arg, q.price_at_add, clock'),
                                     last'.session_id, last'.sku) : q.qty = e.qty]_vars

\* C27: every successful upsert_quiz, record_reaction, stop_session,
\* add_to_cart with a nonzero delta, and get_feed that logged at least one
\* impression commits, together with its other writes, the time of the call
\* as the session's updated_at.
C27_StateChangesTouchSession ==
    [][(CallCompleted /\ last'.outcome = "ok"
          /\ \/ last'.op \in {"upsert_quiz", "record_reaction", "stop_session"}
             \/ last'.op = "add_to_cart" /\ last'.arg # 0
             \/ last'.op = "get_feed" /\ last'.items # <<>>) =>
          /\ clock' = clock + 1
          /\ sessions'[last'.session_id].updated_at = clock']_vars

\* C28: a successful get_feed(s, page_size) returns exactly min(page_size, E)
\* items, E being the number of catalog items that pass the filters of the
\* session's quiz and have no session_events row for s when the call is
\* made; an empty page is a successful result.
C28_PageSizeOrExhausted ==
    [][FeedReturned =>
          LET s == last'.session_id
              quiz == session_quiz[s]
              E == Cardinality(Eligible(session_events, s, quiz,
                                        get_abv_range(quiz.style, quiz.drink_type)))
          IN /\ last'.arg >= 0
             /\ Len(last'.items) = (IF last'.arg <= E THEN last'.arg ELSE E)]_vars

\* A page of one item for page_size 2: the session had seen all but one of the
\* eligible items.
C28_Witness ==
    /\ last.op = "get_feed" /\ last.outcome = "ok"
    /\ last.arg = 2 /\ Len(last.items) = 1
    /\ Len(pages[last.session_id]) = 2

\* C29: with a fixed quiz, repeated get_feed calls with page_size >= 1 on
\* one session eventually return an empty page; no page after an empty page
\* has an item; every non-empty page strictly shrinks the set of eligible
\* skus; and no call removes a session_events row.
C29_FeedsDrainTheSession ==
    /\ <>(\E i \in 1..Len(pages["s1"]) : pages["s1"][i] = <<>>)
    /\ [](\A i, j \in 1..Len(pages["s1"]) :
             (i < j /\ pages["s1"][i] = <<>>) => pages["s1"][j] = <<>>)
    /\ [][/\ (FeedReturned /\ last'.items # <<>>) =>
                /\ DrainEligible(session_events') \subseteq DrainEligible(session_events)
                /\ DrainEligible(session_events') # DrainEligible(session_events)
          /\ \A r \in session_events :
                EventRows(session_events', r.session_id, r.sku) # {}]_vars

\* Two pages of items, then two empty pages.
C29_Witness ==
    /\ Len(pages["s1"]) = 4
    /\ pages["s1"][1] # <<>> /\ pages["s1"][2] # <<>>
    /\ pages["s1"][3] = <<>> /\ pages["s1"][4] = <<>>

\* C30: a session's status only moves forward: it appears as 'in_progress'
\* and only through create_session, a successful stop_session leaves it
\* 'completed' (also when it was completed already), and no call changes a
\* 'completed' session to anything else.
C30_StatusMovesForward ==
    [][/\ \A s \in SessionIds :
             /\ (sessions[s].status = "absent" /\ sessions'[s].status # "absent") =>
                   /\ sessions'[s].status = "in_progress"
                   /\ last'.op = "create_session" /\ last'.session_id = s
             /\ sessions[s].status = "in_progress" =>
                   sessions'[s].status \in {"in_progress", "completed"}
             /\ sessions[s].status = "completed" => sessions'[s].status = "completed"
             /\ sessions'[s].status # sessions[s].status =>
                   last'.op \in {"create_session", "stop_session"} /\ last'.session_id = s
       /\ (CallCompleted /\ last'.op = "stop_session" /\ last'.outcome = "ok") =>
             sessions'[last'.session_id].status = "completed"]_vars

\* create_session, stop_session twice (the only calls that advance the time
\* and leave no quiz, event or cart row), then add_to_cart: the session is
\* still completed.
C30_Witness ==
    /\ clock = 4
    /\ sessions["s1"].status = "completed" /\ sessions["s2"].status = "absent"
    /\ session_quiz["s1"] = NoQuiz /\ session_events = {}
    /\ last.op = "add_to_cart" /\ last.outcome = "ok" /\ last.session_id = "s1"
    /\ \A r \in session_cart : r.sku = last.sku /\ r.qty = last.arg

====
